---- MODULE Spec2Model ----
(***************************************************************************)
(* banana-slides: the verification checkpoint of the editable-PPT export.  *)
(*                                                                         *)
(* Part 1 models VerificationModal / VerificationCanvas: the per-page      *)
(* element -> keep/erase map, its initialisation from the layout tree,     *)
(* the click / select-all / deselect-all / reset / confirm handlers and    *)
(* page navigation.                                                        *)
(*                                                                         *)
(* Part 2 models the export settings modal's manual-confirmation choice    *)
(* and the conversion task it starts.  The task state machine runs in the  *)
(* backend, whose code is not among the sources: it is modelled from the   *)
(* specification, section 4.5.                                             *)
(*                                                                         *)
(* Part 3 models VertexAITool's retry wrapper, part 4 the selections of    *)
(* the export settings modal and the settings it loads, part 5 the submit  *)
(* handlers of the PDF and image conversion modals.                        *)
(***************************************************************************)
EXTENDS Integers, Sequences, FiniteSets, TLC

(***************************************************************************)
(* Bounds of the model.                                                    *)
(***************************************************************************)
\* Size of the pagesData handed to the modal: its pages plus the layout
\* elements of all of them.
MaxSize == 4

\* Number of pages of a conversion task.
MaxTaskPages == 3

\* Element ids, by preorder position in a page's tree (ids are unique in a tree).
IdPool == <<"t1", "t2", "im1", "e4", "e5", "e6">>
\* Page ids, by position in pagesData.
PageIdPool == <<"p1", "p2", "p3", "p4", "p5", "p6">>

\* A missing element_id: the property key JavaScript makes of `undefined`.
Undefined == "undefined"

VARIABLES
    pagesData,          \* prop: sequence of VerificationPageData
    currentIndex,       \* useState(0), 0-based index into pagesData
    elementStatusMap,   \* pageId -> ordered object elementId -> status
    confirmedElements,  \* the onConfirm call of the last step, if it made one
    lastOp,             \* the handler that ran last and its arguments
    exportModal,        \* ExportSettingsModal: isOpen and its manualConfirmation
    task,               \* the ConversionTask started from the export settings
    confirmResponse,    \* the answer to the confirm call of the last step, if any
    exportSelection,    \* ExportSettingsModal: the props and the other useState values
    settingsInFlight,   \* getSettings() promises not yet settled
    exportPayload,      \* the onConfirm(settings) call of the last step, if any
    lastSelected,       \* the select the user changed in the last step, if any
    retry,              \* VertexAITool: max_retries and the call in progress
    convert             \* PdfToPPTModal / ImageToPPTModal and the submission in progress

verificationVars ==
    <<pagesData, currentIndex, elementStatusMap, confirmedElements, lastOp>>

taskVars == <<exportModal, task, confirmResponse>>

exportVars == <<exportSelection, settingsInFlight, exportPayload, lastSelected>>

retryVars == <<retry>>

convertVars == <<convert>>

vars == <<verificationVars, taskVars, exportVars, retryVars, convertVars>>

outsideVerification == <<taskVars, exportVars, retryVars, convertVars>>

outsideTask == <<verificationVars, exportVars, retryVars, convertVars>>

(***************************************************************************)
(* JavaScript objects with string keys: an ordered list of entries, keys   *)
(* in insertion order.                                                     *)
(***************************************************************************)
Keys(obj) == [i \in 1..Len(obj) |-> obj[i].id]

KeySet(obj) == {obj[i].id : i \in 1..Len(obj)}

HasKey(obj, id) == \E i \in 1..Len(obj) : obj[i].id = id

\* obj[id]; undefined when the key is absent.
Get(obj, id) ==
    IF HasKey(obj, id)
    THEN obj[CHOOSE i \in 1..Len(obj) : obj[i].id = id].status
    ELSE Undefined

\* obj[id] = status: overwrites in place, or appends a new key.
Put(obj, id, status) ==
    IF HasKey(obj, id)
    THEN [i \in 1..Len(obj) |->
            IF obj[i].id = id THEN [id |-> id, status |-> status] ELSE obj[i]]
    ELSE Append(obj, [id |-> id, status |-> status])

(***************************************************************************)
(* Layout trees.  An element is [element_id, children]; a forest is a      *)
(* sequence of elements.  Forests(labels) is every forest over Len(labels) *)
(* nodes; IdLabels(n) gives node i the id IdPool[i] or no id at all.       *)
(***************************************************************************)
RECURSIVE Forests(_)
Forests(labels) ==
    IF labels = <<>> THEN {<<>>}
    ELSE LET n == Len(labels) IN
         UNION { { <<[element_id |-> labels[1], children |-> c]>> \o rest :
                       c \in Forests(SubSeq(labels, 2, k)),
                       rest \in Forests(SubSeq(labels, k + 1, n)) } : k \in 1..n }

IdLabels(n) ==
    { [i \in 1..n |-> IF b[i] THEN IdPool[i] ELSE Undefined] : b \in [1..n -> BOOLEAN] }

DefinedIds(labels) == {labels[i] : i \in 1..Len(labels)} \ {Undefined}

\* Every VerificationPageData (without its pageId) over exactly n elements.
PageShapes(n) ==
    UNION { { [layoutAnalysis |-> [present |-> TRUE, elements |-> f],
               confirmedElementIds |-> c] :
                 f \in Forests(labels), c \in SUBSET DefinedIds(labels) } :
            labels \in IdLabels(n) }
    \cup (IF n = 0
          THEN {[layoutAnalysis |-> [present |-> FALSE, elements |-> <<>>],
                 confirmedElementIds |-> {}]}
          ELSE {})

\* Every pagesData of exactly k pages, pages first..first+k-1, over at most
\* budget elements.
RECURSIVE Sessions(_, _, _)
Sessions(first, k, budget) ==
    IF k = 0 THEN {<<>>}
    ELSE UNION { { <<[pageId |-> PageIdPool[first],
                      layoutAnalysis |-> s.layoutAnalysis,
                      confirmedElementIds |-> s.confirmedElementIds]>> \o rest :
                       s \in PageShapes(n),
                       rest \in Sessions(first + 1, k - 1, budget - n) } :
                 n \in 0..budget }

PagesDataInputs == UNION { Sessions(1, k, MaxSize - k) : k \in 0..MaxSize }

(***************************************************************************)
(* VerificationModal, elementStatusMap initializer.                        *)
(***************************************************************************)
\* Mutant: the ids of the root elements only, children not visited.
RECURSIVE getAllElementIdsRootsOnly(_)
getAllElementIdsRootsOnly(elements) ==
    IF elements = <<>> THEN <<>>
    ELSE (IF Head(elements).element_id # Undefined
          THEN <<Head(elements).element_id>> ELSE <<>>)
         \o getAllElementIdsRootsOnly(Tail(elements))

RECURSIVE getAllElementIds(_)
getAllElementIds(elements) ==
    IF elements = <<>> THEN <<>>
    ELSE LET elem == Head(elements)
             own  == IF elem.element_id # Undefined
                     THEN <<elem.element_id>> ELSE <<>>
             sub  == IF Len(elem.children) > 0
                     THEN getAllElementIds(elem.children) ELSE <<>>
         IN own \o sub \o getAllElementIds(Tail(elements))

\* Mutant: the ternary's branches swapped.
baselineStatusSwapped(confirmedIds, id) ==
    IF id \in confirmedIds THEN "keep" ELSE "erase"

\* The status an id gets from the baseline: erase when confirmed, else keep.
baselineStatus(confirmedIds, id) ==
    IF id \in confirmedIds THEN "erase" ELSE "keep"

\* for (const id of allIds) pageStatus[id] = ...
RECURSIVE assignBaseline(_, _, _)
assignBaseline(allIds, confirmedIds, pageStatus) ==
    IF allIds = <<>> THEN pageStatus
    ELSE assignBaseline(Tail(allIds), confirmedIds,
             Put(pageStatus, Head(allIds), baselineStatus(confirmedIds, Head(allIds))))

initialPageStatus(pageData) ==
    IF pageData.layoutAnalysis.present
    THEN assignBaseline(getAllElementIds(pageData.layoutAnalysis.elements),
                        pageData.confirmedElementIds, <<>>)
    ELSE <<>>

PageIds(pd) == {pd[i].pageId : i \in 1..Len(pd)}

\* initial[pageData.pageId] = pageStatus, in order (a later page wins a tie).
initialElementStatusMap(pd) ==
    [pid \in PageIds(pd) |->
        LET last == CHOOSE i \in 1..Len(pd) :
                        /\ pd[i].pageId = pid
                        /\ \A j \in 1..Len(pd) : pd[j].pageId = pid => j <= i
        IN initialPageStatus(pd[last])]

NoOp == [op |-> "init", pageId |-> "", elementId |-> ""]

\* No onConfirm call was made by the last step.
NotCalled == [called |-> FALSE, elements |-> <<>>]

\* ExportSettingsModal before it is opened: useState(false).
ExportModalClosed == [isOpen |-> FALSE, manualConfirmation |-> FALSE]

\* No conversion task has been created.
NoTask ==
    [status |-> "NONE", manualConfirmation |-> FALSE, pages |-> <<>>,
     awaitedPages |-> {}, confirmed |-> FALSE, reconstructCalled |-> FALSE,
     failures |-> <<>>, error |-> [stage |-> "", page |-> 0]]

\* The export settings modal closed and no task created.
IdleTask ==
    /\ exportModal = ExportModalClosed
    /\ task = NoTask
    /\ confirmResponse = "none"

\* ExportSettingsModal's useState initial values for given props.
initialSelection(initialExtractor, initialInpaint) ==
    [initialExtractor |-> initialExtractor, initialInpaint |-> initialInpaint,
     extractor |-> initialExtractor, inpaint |-> initialInpaint,
     globalLocalEnabled |-> FALSE, textStyleMode |-> "local_cv",
     imageResolution |-> "1080p", imageFormat |-> "PNG"]

\* Most getSettings() requests awaiting their answer at a time.
MaxInFlight == 2

\* The last step was not a change of one of the selects.
NoSelect == ""

\* No onConfirm(settings) call was made by the last step.
NoPayload == [called |-> FALSE, settings |-> <<>>]

IdleExport ==
    /\ exportSelection = initialSelection("hybrid", "hybrid")
    /\ settingsInFlight = 0
    /\ exportPayload = NoPayload
    /\ lastSelected = NoSelect

\* A VertexAITool with no call in progress.
idleTool(max_retries) ==
    [max_retries |-> max_retries, pc |-> "idle", method |-> "", i |-> 0,
     attempts |-> 0, waits |-> <<>>, errors |-> <<>>, lastError |-> "",
     result |-> ""]

IdleRetry == retry = idleTool(2)

\* A conversion modal as mounted: no file, nothing submitted.  kind is "pdf"
\* for PdfToPPTModal and "image" for ImageToPPTModal, whose in-progress flag
\* is called isUploading.
mountedModal(kind) ==
    [kind |-> kind, isOpen |-> TRUE, hasFile |-> FALSE, mode |-> "original",
     templateStyle |-> "", isProcessing |-> FALSE, pc |-> "idle",
     projectId |-> "", convertIssued |-> FALSE, convertSucceeded |-> FALSE,
     failedAt |-> "", taskAdded |-> FALSE, polling |-> FALSE,
     toast |-> "", navigated |-> FALSE, closed |-> FALSE]

IdleConvert == convert = mountedModal("pdf")

\* The verification modal mounted over some pagesData.
InitVerification(pd) ==
    /\ pagesData = pd
    /\ currentIndex = 0
    /\ elementStatusMap = initialElementStatusMap(pagesData)
    /\ confirmedElements = NotCalled
    /\ lastOp = NoOp

Init ==
    /\ \E pd \in PagesDataInputs : InitVerification(pd)
    /\ IdleTask
    /\ IdleExport
    /\ IdleRetry
    /\ IdleConvert

(***************************************************************************)
(* Handlers.                                                               *)
(***************************************************************************)
HasCurrentPage == currentIndex + 1 \in 1..Len(pagesData)

currentPageData == pagesData[currentIndex + 1]

\* { ...prev, [pageId]: pageStatus }
WithPage(prev, pageId, pageStatus) ==
    [pid \in DOMAIN prev \cup {pageId} |->
        IF pid = pageId THEN pageStatus ELSE prev[pid]]

\* Mutant: a click marks the element for erasing.
toggledToErase(pageStatus, elementId) ==
    Put(pageStatus, elementId, "erase")

toggled(pageStatus, elementId) ==
    Put(pageStatus, elementId,
        IF Get(pageStatus, elementId) = "keep" THEN "erase" ELSE "keep")

handleElementClick(elementId) ==
    IF ~HasCurrentPage THEN UNCHANGED vars
    ELSE /\ elementStatusMap' =
                WithPage(elementStatusMap, currentPageData.pageId,
                         toggled(elementStatusMap[currentPageData.pageId], elementId))
         /\ lastOp' = [op |-> "toggle", pageId |-> currentPageData.pageId,
                       elementId |-> elementId]
         /\ confirmedElements' = NotCalled
         /\ UNCHANGED <<pagesData, currentIndex, outsideVerification>>

\* Mutant: the loop misses the last key and the copy loses it.
setAllButLast(pageStatus, status) ==
    [i \in 1..(Len(pageStatus) - 1) |-> [id |-> pageStatus[i].id, status |-> status]]

\* for (const id of Object.keys(pageStatus)) pageStatus[id] = status
setAll(pageStatus, status) ==
    [i \in 1..Len(pageStatus) |-> [id |-> pageStatus[i].id, status |-> status]]

handleSelectAll ==
    IF ~HasCurrentPage THEN UNCHANGED vars
    ELSE /\ elementStatusMap' =
                WithPage(elementStatusMap, currentPageData.pageId,
                         setAll(elementStatusMap[currentPageData.pageId], "erase"))
         /\ lastOp' = [op |-> "selectAll", pageId |-> currentPageData.pageId,
                       elementId |-> ""]
         /\ confirmedElements' = NotCalled
         /\ UNCHANGED <<pagesData, currentIndex, outsideVerification>>

handleDeselectAll ==
    IF ~HasCurrentPage THEN UNCHANGED vars
    ELSE /\ elementStatusMap' =
                WithPage(elementStatusMap, currentPageData.pageId,
                         setAll(elementStatusMap[currentPageData.pageId], "keep"))
         /\ lastOp' = [op |-> "deselectAll", pageId |-> currentPageData.pageId,
                       elementId |-> ""]
         /\ confirmedElements' = NotCalled
         /\ UNCHANGED <<pagesData, currentIndex, outsideVerification>>

\* for (const id of Object.keys(pageStatus)) pageStatus[id] = confirmedIds.has(id) ? ...
resetAll(pageStatus, confirmedIds) ==
    [i \in 1..Len(pageStatus) |->
        [id |-> pageStatus[i].id,
         status |-> baselineStatus(confirmedIds, pageStatus[i].id)]]

handleReset ==
    IF ~HasCurrentPage THEN UNCHANGED vars
    ELSE /\ elementStatusMap' =
                WithPage(elementStatusMap, currentPageData.pageId,
                         resetAll(elementStatusMap[currentPageData.pageId],
                                  currentPageData.confirmedElementIds))
         /\ lastOp' = [op |-> "reset", pageId |-> currentPageData.pageId,
                       elementId |-> ""]
         /\ confirmedElements' = NotCalled
         /\ UNCHANGED <<pagesData, currentIndex, outsideVerification>>

\* Mutant: the filter keeps the last entry whatever its status.
RECURSIVE eraseIdsOfLastAlways(_)
eraseIdsOfLastAlways(pageStatus) ==
    IF pageStatus = <<>> THEN <<>>
    ELSE (IF Head(pageStatus).status = "erase" \/ Len(pageStatus) = 1
          THEN <<Head(pageStatus).id>> ELSE <<>>)
         \o eraseIdsOfLastAlways(Tail(pageStatus))

\* Object.entries(pageStatus).filter(status === 'erase').map(id)
RECURSIVE eraseIdsOf(_)
eraseIdsOf(pageStatus) ==
    IF pageStatus = <<>> THEN <<>>
    ELSE (IF Head(pageStatus).status = "erase" THEN <<Head(pageStatus).id>> ELSE <<>>)
         \o eraseIdsOf(Tail(pageStatus))

\* The object handleConfirm builds: pageId -> eraseIds, one key per page.
collectConfirmed(pd, statusMap) ==
    [pid \in PageIds(pd) |->
        eraseIdsOf(IF pid \in DOMAIN statusMap THEN statusMap[pid] ELSE <<>>)]

handleConfirm ==
    /\ confirmedElements' =
            [called |-> TRUE, elements |-> collectConfirmed(pagesData, elementStatusMap)]
    /\ lastOp' = [op |-> "confirm", pageId |-> "", elementId |-> ""]
    /\ UNCHANGED <<pagesData, currentIndex, elementStatusMap, outsideVerification>>

(***************************************************************************)
(* VerificationCanvas.                                                     *)
(***************************************************************************)
\* Mutant: all siblings first, their children after them.
RECURSIVE getAllElementsSiblingsFirst(_)
getAllElementsSiblingsFirst(elements) ==
    IF elements = <<>> THEN <<>>
    ELSE LET elem == Head(elements)
             sub  == IF Len(elem.children) > 0
                     THEN getAllElementsSiblingsFirst(elem.children) ELSE <<>>
         IN <<elem>> \o getAllElementsSiblingsFirst(Tail(elements)) \o sub

RECURSIVE getAllElements(_)
getAllElements(elements) ==
    IF elements = <<>> THEN <<>>
    ELSE LET elem == Head(elements)
             sub  == IF Len(elem.children) > 0
                     THEN getAllElements(elem.children) ELSE <<>>
         IN <<elem>> \o sub \o getAllElements(Tail(elements))

\* renderElement: elementStatus[element.element_id] || 'erase'
shownStatus(elementStatus, element_id) ==
    IF Get(elementStatus, element_id) = Undefined
    THEN "erase" ELSE Get(elementStatus, element_id)

\* The canvas is mounted only for a page that has layoutAnalysis.elements.
CanvasRendered == HasCurrentPage /\ currentPageData.layoutAnalysis.present

\* A click on one of the boxes the canvas renders.
ElementClick ==
    /\ CanvasRendered
    /\ \E i \in 1..Len(getAllElements(currentPageData.layoutAnalysis.elements)) :
          handleElementClick(
              getAllElements(currentPageData.layoutAnalysis.elements)[i].element_id)

(***************************************************************************)
(* Page navigation.                                                        *)
(***************************************************************************)
Max(a, b) == IF a >= b THEN a ELSE b
Min(a, b) == IF a <= b THEN a ELSE b

Navigate(index) ==
    /\ currentIndex' = index
    /\ lastOp' = [op |-> "navigate", pageId |-> "", elementId |-> ""]
    /\ confirmedElements' = NotCalled
    /\ UNCHANGED <<pagesData, elementStatusMap, outsideVerification>>

PreviousPage ==
    /\ currentIndex # 0                        \* disabled={currentIndex === 0}
    /\ Navigate(Max(0, currentIndex - 1))

NextPage ==
    /\ currentIndex # Len(pagesData) - 1       \* disabled at the last page
    /\ Navigate(Min(Len(pagesData) - 1, currentIndex + 1))

ThumbnailClick ==
    \E index \in 0..(Len(pagesData) - 1) : Navigate(index)

Next ==
    \/ ElementClick
    \/ handleSelectAll
    \/ handleDeselectAll
    \/ handleReset
    \/ handleConfirm
    \/ PreviousPage
    \/ NextPage
    \/ ThumbnailClick

Spec == Init /\ [][Next]_vars

(***************************************************************************)
(* Part 2.  ExportSettingsModal: the manual-confirmation checkbox and the  *)
(* confirm button.                                                         *)
(***************************************************************************)
\* isOpen turns true: the effect calls getSettings() and resets the checkbox
\* (setManualConfirmation(false)); the answer arrives later.
OpenExportSettings ==
    /\ ~exportModal.isOpen
    /\ settingsInFlight < MaxInFlight
    /\ exportModal' = [isOpen |-> TRUE, manualConfirmation |-> FALSE]
    /\ settingsInFlight' = settingsInFlight + 1
    /\ exportPayload' = NoPayload
    /\ lastSelected' = NoSelect
    /\ confirmResponse' = "none"
    /\ UNCHANGED <<verificationVars, retryVars, convertVars, task, exportSelection>>

\* onClose (the cancel button); the useState values stay.
CloseExportSettings ==
    /\ exportModal.isOpen
    /\ exportModal' = [exportModal EXCEPT !.isOpen = FALSE]
    /\ exportPayload' = NoPayload
    /\ lastSelected' = NoSelect
    /\ confirmResponse' = "none"
    /\ UNCHANGED <<verificationVars, retryVars, convertVars, task, exportSelection, settingsInFlight>>

\* The checkbox's onChange: setManualConfirmation(e.target.checked).
SetManualConfirmation ==
    /\ exportModal.isOpen
    /\ exportModal' = [exportModal EXCEPT !.manualConfirmation = ~@]
    /\ exportPayload' = NoPayload
    /\ lastSelected' = NoSelect
    /\ confirmResponse' = "none"
    /\ UNCHANGED <<verificationVars, retryVars, convertVars, task, exportSelection, settingsInFlight>>

\* The manualConfirmation field of the settings object handed to onConfirm.
onConfirmSettings == [manualConfirmation |-> exportModal.manualConfirmation]

(***************************************************************************)
(* PipelineOrchestrator: the task state machine of specification 4.5.      *)
(* Per page: queued -> extracted -> reconstructed -> assembled.            *)
(***************************************************************************)
TaskPages == DOMAIN task.pages

\* create(pages, settings): a handle in state PENDING, every page queued.
createTask(n, settings) ==
    [status |-> "PENDING", manualConfirmation |-> settings.manualConfirmation,
     pages |-> [p \in 1..n |-> "queued"],
     awaitedPages |-> {}, confirmed |-> FALSE, reconstructCalled |-> FALSE,
     failures |-> <<>>, error |-> [stage |-> "", page |-> 0]]

\* The confirm button: onConfirm(settings), which creates the task.  One
\* task is followed: the button acts while none has been created.
ExportConfirm ==
    /\ exportModal.isOpen
    /\ task.status = "NONE"
    /\ \E n \in 1..MaxTaskPages : task' = createTask(n, onConfirmSettings)
    /\ confirmResponse' = "none"
    /\ UNCHANGED <<outsideTask, exportModal>>

\* PENDING -> PROCESSING: per-page work begins.
StartProcessing ==
    /\ task.status = "PENDING"
    /\ task' = [task EXCEPT !.status = "PROCESSING"]
    /\ confirmResponse' = "none"
    /\ UNCHANGED <<outsideTask, exportModal>>

\* Mutant: the error records how many pages failed, not which one.
failedCounting(stage, p) ==
    [task EXCEPT !.status = "FAILED",
                 !.failures = Append(@, p),
                 !.error = [stage |-> stage, page |-> Len(task.failures) + 1]]

\* A stage of a page exhausted its retries: the task fails, recording the page.
\* (failures is the history of the pages that failed, in order.)
failed(stage, p) ==
    [task EXCEPT !.status = "FAILED",
                 !.failures = Append(@, p),
                 !.error = [stage |-> stage, page |-> p]]

ExtractPage(p) ==
    /\ task.status = "PROCESSING"
    /\ task.pages[p] = "queued"
    /\ \/ task' = [task EXCEPT !.pages[p] = "extracted"]
       \/ task' = failed("extract", p)
    /\ confirmResponse' = "none"
    /\ UNCHANGED <<outsideTask, exportModal>>

\* Mutant: the task halts for verification whatever its settings say.
mayHaltForVerificationAlways ==
    /\ ~task.confirmed
    /\ \A p \in TaskPages : task.pages[p] = "extracted"

\* With manualConfirmation the task halts once every page is extracted.
mayHaltForVerification ==
    /\ task.manualConfirmation
    /\ ~task.confirmed
    /\ \A p \in TaskPages : task.pages[p] = "extracted"

HaltForVerification ==
    /\ task.status = "PROCESSING"
    /\ mayHaltForVerification
    /\ task' = [task EXCEPT !.status = "AWAITING_VERIFICATION",
                            !.awaitedPages = {p \in TaskPages : task.pages[p] = "extracted"}]
    /\ confirmResponse' = "none"
    /\ UNCHANGED <<outsideTask, exportModal>>

\* Mutant: confirm is also taken while the task is processing.
mayConfirmWhileProcessing ==
    task.status \in {"AWAITING_VERIFICATION", "PROCESSING"}

\* confirm is only valid from AWAITING_VERIFICATION.
mayConfirm == task.status = "AWAITING_VERIFICATION"

\* confirm(taskId, perPageEraseIds), called for an existing task in whatever
\* state it is: accepted (PROCESSING resumes) or rejected (nothing changes).
ConfirmVerification ==
    /\ task.status # "NONE"
    /\ IF mayConfirm
       THEN /\ task' = [task EXCEPT !.status = "PROCESSING", !.confirmed = TRUE]
            /\ confirmResponse' = "accepted"
       ELSE /\ task' = task
            /\ confirmResponse' = "rejected"
    /\ UNCHANGED <<outsideTask, exportModal>>

\* Mutant: reconstruction does not wait for the verification.
mayReconstructUngated(p) ==
    task.pages[p] = "extracted"

\* Reconstruct runs on an extracted page; under manualConfirmation only
\* after the confirm call.
mayReconstruct(p) ==
    /\ task.pages[p] = "extracted"
    /\ task.manualConfirmation => task.confirmed

ReconstructPage(p) ==
    /\ task.status = "PROCESSING"
    /\ mayReconstruct(p)
    /\ \/ task' = [task EXCEPT !.pages[p] = "reconstructed", !.reconstructCalled = TRUE]
       \/ task' = [failed("reconstruct", p) EXCEPT !.reconstructCalled = TRUE]
    /\ confirmResponse' = "none"
    /\ UNCHANGED <<outsideTask, exportModal>>

AssemblePage(p) ==
    /\ task.status = "PROCESSING"
    /\ task.pages[p] = "reconstructed"
    /\ \/ task' = [task EXCEPT !.pages[p] = "assembled"]
       \/ task' = failed("assemble", p)
    /\ confirmResponse' = "none"
    /\ UNCHANGED <<outsideTask, exportModal>>

\* Mutant: a late page result puts the task back to work.
afterLateResultResuming(p, stage) ==
    [task EXCEPT !.pages[p] = stage, !.status = "PROCESSING"]

\* The result of a page that was in flight when the task failed: kept for
\* inspection, the task's status and error stay.
afterLateResult(p, stage) ==
    [task EXCEPT !.pages[p] = stage]

NextStage(stage) ==
    CASE stage = "queued" -> "extracted"
      [] stage = "extracted" -> "reconstructed"
      [] stage = "reconstructed" -> "assembled"
      [] OTHER -> stage

\* Pages are worked on concurrently: after the task FAILED the work in flight
\* for another page still ends, with a result or with a failure of its own.
LatePageResult ==
    /\ task.status = "FAILED"
    /\ \E p \in TaskPages :
          /\ task.pages[p] # "assembled"
          /\ p \notin {task.failures[k] : k \in 1..Len(task.failures)}
          /\ task.pages[p] = "extracted" => mayReconstruct(p)
          /\ \/ task' = [afterLateResult(p, NextStage(task.pages[p])) EXCEPT
                            !.reconstructCalled = @ \/ task.pages[p] = "extracted"]
             \/ task' = [task EXCEPT !.failures = Append(@, p)]
    /\ confirmResponse' = "none"
    /\ UNCHANGED <<outsideTask, exportModal>>

\* Mutant: only a confirmed task is packaged.
mayCompleteOnlyConfirmed ==
    /\ task.confirmed
    /\ \A p \in TaskPages : task.pages[p] = "assembled"

\* Every page went through Assemble.
mayComplete == \A p \in TaskPages : task.pages[p] = "assembled"

\* All pages succeeded: COMPLETED with the packaged artifact.
CompleteTask ==
    /\ task.status = "PROCESSING"
    /\ mayComplete
    /\ task' = [task EXCEPT !.status = "COMPLETED"]
    /\ confirmResponse' = "none"
    /\ UNCHANGED <<outsideTask, exportModal>>

ExtractSomePage == \E p \in TaskPages : ExtractPage(p)
ReconstructSomePage == \E p \in TaskPages : ReconstructPage(p)
AssembleSomePage == \E p \in TaskPages : AssemblePage(p)

\* The export settings modal and the task it starts; the verification modal
\* is not mounted.
InitTask ==
    /\ InitVerification(<<>>)
    /\ IdleTask
    /\ IdleExport
    /\ IdleRetry
    /\ IdleConvert

NextTask ==
    \/ OpenExportSettings
    \/ CloseExportSettings
    \/ SetManualConfirmation
    \/ ExportConfirm
    \/ StartProcessing
    \/ ExtractSomePage
    \/ HaltForVerification
    \/ ConfirmVerification
    \/ ReconstructSomePage
    \/ AssembleSomePage
    \/ LatePageResult
    \/ CompleteTask

SpecTask == InitTask /\ [][NextTask]_vars

\* The worker pool keeps working: no enabled stage of the pipeline is put
\* off forever.
SpecTaskFair ==
    /\ SpecTask
    /\ WF_vars(StartProcessing)
    /\ WF_vars(ExtractSomePage)
    /\ WF_vars(HaltForVerification)
    /\ WF_vars(ReconstructSomePage)
    /\ WF_vars(AssembleSomePage)
    /\ WF_vars(CompleteTask)

\* --------------------------------------------------------------------------
\* Part 3: VertexAITool (part_001): the retry wrapper and its three callers
\* --------------------------------------------------------------------------

\* Largest max_retries a configuration names (0 stands for none given).
MaxConfigRetries == 3

\* config.max_retries || 2
DefaultMaxRetries == 2

\* withRetry's default for its retries parameter.
DefaultRetries == 3

\* Base of the backoff, in milliseconds.
BaseDelayMs == 1000

RECURSIVE Pow2(_)
Pow2(n) == IF n = 0 THEN 1 ELSE 2 * Pow2(n - 1)

Methods == {"generateText", "generateWithImage", "generateImage"}

\* How the function handed to withRetry can fail: generateWithImage and
\* generateImage read image files first (an unreadable path is an input
\* error), every method throws on a failed model call or an empty candidate
\* list, and generateImage throws when no part of the response is an image.
ErrorsOf(method) ==
    CASE method = "generateText" -> {"model_error", "no_candidates"}
      [] method = "generateWithImage" -> {"input_error", "model_error", "no_candidates"}
      [] method = "generateImage" ->
            {"input_error", "model_error", "no_candidates", "no_image"}

\* What the function resolves to when it does not throw.
ResultOf(method) == IF method = "generateImage" THEN "buffer" ELSE "text"

\* new VertexAITool(config)
constructTool(configMaxRetries) ==
    idleTool(IF configMaxRetries = 0 THEN DefaultMaxRetries ELSE configMaxRetries)

NewTool ==
    /\ retry.pc \in {"idle", "returned", "thrown"}
    /\ \E c \in 0..MaxConfigRetries : retry' = constructTool(c)
    /\ UNCHANGED <<verificationVars, taskVars, exportVars, convertVars>>

\* Mutant: no attempt is allowed.
retriesOfNone(tool) == 0

\* The callers pass the function alone, so retries takes its default.
retriesOf(tool) == DefaultRetries

\* generateText / generateWithImage / generateImage: return this.withRetry(fn)
CallMethod ==
    /\ retry.pc \in {"idle", "returned", "thrown"}
    /\ \E method \in Methods :
          retry' = [idleTool(retry.max_retries) EXCEPT
                        !.pc = IF 0 < retriesOf(retry) THEN "attempt" ELSE "thrown",
                        !.method = method]
    /\ UNCHANGED <<verificationVars, taskVars, exportVars, convertVars>>

\* Mutant: the wait grows by the base each time.
backoffDelayLinear(i) == (i + 1) * BaseDelayMs

\* Math.pow(2, i) * 1000
backoffDelay(i) == Pow2(i) * BaseDelayMs

\* try { return await fn() } catch (error) { lastError = error; delay; wait }
AttemptFn ==
    /\ retry.pc = "attempt"
    /\ \/ retry' = [retry EXCEPT !.attempts = @ + 1,
                                 !.pc = "returned",
                                 !.result = ResultOf(retry.method)]
       \/ \E e \in ErrorsOf(retry.method) :
             retry' = [retry EXCEPT !.attempts = @ + 1,
                                    !.pc = "wait",
                                    !.lastError = e,
                                    !.errors = Append(@, e),
                                    !.waits = Append(@, backoffDelay(retry.i))]
    /\ UNCHANGED <<verificationVars, taskVars, exportVars, convertVars>>

\* The timer fires: i++, then the loop test, then throw lastError.
BackoffElapsed ==
    /\ retry.pc = "wait"
    /\ retry' = [retry EXCEPT !.i = @ + 1,
                              !.pc = IF retry.i + 1 < retriesOf(retry)
                                     THEN "attempt" ELSE "thrown"]
    /\ UNCHANGED <<verificationVars, taskVars, exportVars, convertVars>>

InitRetry ==
    /\ InitVerification(<<>>)
    /\ IdleTask
    /\ IdleExport
    /\ IdleRetry
    /\ IdleConvert

NextRetry ==
    \/ NewTool
    \/ CallMethod
    \/ AttemptFn
    \/ BackoffElapsed

SpecRetry == InitRetry /\ [][NextRetry]_vars

\* --------------------------------------------------------------------------
\* Part 4: ExportSettingsModal (ExportSettingsModal.tsx): the selections, the
\* settings loaded from the store, and the object handed to onConfirm
\* --------------------------------------------------------------------------

\* A field the response does not carry (or carries empty: falsy either way).
Absent == ""

\* Answers of getSettings(): res.data, with values of the store that the
\* modal's types do and do not know.
SettingsResponses ==
    [use_local_ocr_inpaint : BOOLEAN,
     text_style_extraction_mode : {Absent, "ai", "bogus"},
     image_resolution : {Absent, "720p", "4K"},
     image_format : {Absent, "JPG", "bogus"}]

\* resMap[res.data.image_resolution] || '1080p'
resMap(image_resolution) ==
    IF image_resolution \in {"720p", "1080p", "2K"}
    THEN image_resolution ELSE "1080p"

\* The .then callback of getSettings().
applySettings(sel, data) ==
    [sel EXCEPT
        !.globalLocalEnabled = data.use_local_ocr_inpaint,
        !.extractor = IF data.use_local_ocr_inpaint THEN "local"
                      ELSE sel.initialExtractor,
        !.inpaint = IF data.use_local_ocr_inpaint THEN "local"
                    ELSE sel.initialInpaint,
        !.textStyleMode = IF data.text_style_extraction_mode # Absent
                          THEN data.text_style_extraction_mode ELSE @,
        !.imageResolution = IF data.image_resolution # Absent
                            THEN resMap(data.image_resolution) ELSE @,
        !.imageFormat = IF data.image_format # Absent
                        THEN data.image_format ELSE @]

\* getSettings() resolves; nothing cancels it when the modal closes.
SettingsResolved ==
    /\ settingsInFlight > 0
    /\ settingsInFlight' = settingsInFlight - 1
    /\ \E data \in SettingsResponses :
          exportSelection' = applySettings(exportSelection, data)
    /\ exportPayload' = NoPayload
    /\ lastSelected' = NoSelect
    /\ UNCHANGED <<verificationVars, taskVars, retryVars, convertVars>>

\* The .catch callback of getSettings().
SettingsRejected ==
    /\ settingsInFlight > 0
    /\ settingsInFlight' = settingsInFlight - 1
    /\ exportSelection' = [exportSelection EXCEPT
                              !.extractor = exportSelection.initialExtractor,
                              !.inpaint = exportSelection.initialInpaint]
    /\ exportPayload' = NoPayload
    /\ lastSelected' = NoSelect
    /\ UNCHANGED <<verificationVars, taskVars, retryVars, convertVars>>

\* The <option>s of the extractor select: 'local' is listed first when the
\* global switch is on and last, with a hint, when it is off.
ExtractorOptions(globalLocalEnabled) ==
    (IF globalLocalEnabled THEN {"local"} ELSE {})
        \cup {"hybrid", "mineru"}
        \cup (IF ~globalLocalEnabled THEN {"local"} ELSE {})

\* The <option>s of the inpaint select.
InpaintOptions(globalLocalEnabled) ==
    (IF globalLocalEnabled THEN {"local"} ELSE {})
        \cup {"hybrid", "baidu", "generative"}
        \cup (IF ~globalLocalEnabled THEN {"local"} ELSE {})

TextStyleOptions == {"local_cv", "ai", "none"}

ImageResolutionOptions == {"720p", "1080p", "2K"}

ImageFormatOptions == {"PNG", "JPG", "WEBP"}

\* A select's onChange with the value of one of its options.
Select(field, options) ==
    /\ exportModal.isOpen
    /\ \E v \in options : exportSelection' = [exportSelection EXCEPT ![field] = v]
    /\ exportPayload' = NoPayload
    /\ lastSelected' = field
    /\ UNCHANGED <<verificationVars, taskVars, retryVars, convertVars, settingsInFlight>>

SelectExtractor ==
    Select("extractor", ExtractorOptions(exportSelection.globalLocalEnabled))

SelectInpaint ==
    Select("inpaint", InpaintOptions(exportSelection.globalLocalEnabled))

SelectTextStyleMode == Select("textStyleMode", TextStyleOptions)

SelectImageResolution == Select("imageResolution", ImageResolutionOptions)

SelectImageFormat == Select("imageFormat", ImageFormatOptions)

\* The settings object the confirm button builds.
settingsObject ==
    [extractor |-> exportSelection.extractor,
     inpaint |-> exportSelection.inpaint,
     manualConfirmation |-> exportModal.manualConfirmation,
     textStyleMode |-> exportSelection.textStyleMode,
     imageResolution |-> exportSelection.imageResolution,
     imageFormat |-> exportSelection.imageFormat]

\* The confirm button's onClick, seen from the modal: onConfirm(settings).
ConfirmSettings ==
    /\ exportModal.isOpen
    /\ exportPayload' = [called |-> TRUE, settings |-> settingsObject]
    /\ lastSelected' = NoSelect
    /\ UNCHANGED <<verificationVars, taskVars, retryVars, convertVars, exportSelection, settingsInFlight>>

\* The host page's choices for the two props.
InitExport ==
    /\ InitVerification(<<>>)
    /\ IdleTask
    /\ \E ie \in {"hybrid", "mineru"}, ii \in {"hybrid", "generative"} :
          exportSelection = initialSelection(ie, ii)
    /\ settingsInFlight = 0
    /\ exportPayload = NoPayload
    /\ lastSelected = NoSelect
    /\ IdleRetry
    /\ IdleConvert

NextExport ==
    \/ OpenExportSettings
    \/ CloseExportSettings
    \/ SetManualConfirmation
    \/ SettingsResolved
    \/ SettingsRejected
    \/ SelectExtractor
    \/ SelectInpaint
    \/ SelectTextStyleMode
    \/ SelectImageResolution
    \/ SelectImageFormat
    \/ ConfirmSettings

SpecExport == InitExport /\ [][NextExport]_vars

\* --------------------------------------------------------------------------
\* Part 5: PdfToPPTModal and ImageToPPTModal: handleSubmit and its awaits
\* --------------------------------------------------------------------------

\* Texts of the style description: empty, blank, and a description.
TemplateStyles == {"", " ", "flat"}

\* String.prototype.trim
trim(text) == IF text = " " THEN "" ELSE text

ConvertFrame == UNCHANGED <<verificationVars, taskVars, exportVars, retryVars>>

\* handleFileSelect with a file of the accepted type.
SelectFile ==
    /\ convert.isOpen
    /\ convert' = [convert EXCEPT !.hasFile = TRUE]
    /\ ConvertFrame

\* removeFile; the PDF modal disables its button while processing.
RemoveFile ==
    /\ convert.isOpen
    /\ convert.hasFile
    /\ convert.kind = "pdf" => ~convert.isProcessing
    /\ convert' = [convert EXCEPT !.hasFile = FALSE]
    /\ ConvertFrame

\* The two mode buttons of the PDF modal.
SetMode ==
    /\ convert.isOpen
    /\ convert.kind = "pdf"
    /\ \E mode \in {"original", "reconstructed"} :
          convert' = [convert EXCEPT !.mode = mode]
    /\ ConvertFrame

\* The style textarea, rendered in reconstructed mode.
SetTemplateStyle ==
    /\ convert.isOpen
    /\ convert.kind = "pdf"
    /\ convert.mode = "reconstructed"
    /\ \E text \in TemplateStyles :
          convert' = [convert EXCEPT !.templateStyle = text]
    /\ ConvertFrame

\* The cancel button; the PDF modal disables it while processing.
CancelClick ==
    /\ convert.isOpen
    /\ convert.kind = "pdf" => ~convert.isProcessing
    /\ convert' = [convert EXCEPT !.isOpen = FALSE]
    /\ ConvertFrame

\* The host page opens the modal again; the component's state is kept.
Reopen ==
    /\ ~convert.isOpen
    /\ convert' = [convert EXCEPT !.isOpen = TRUE]
    /\ ConvertFrame

\* What a submission leaves behind is told per submission: a click starts
\* from a clean record.
cleared(c) ==
    [c EXCEPT !.projectId = "", !.convertIssued = FALSE,
              !.convertSucceeded = FALSE, !.failedAt = "",
              !.taskAdded = FALSE, !.polling = FALSE, !.toast = "",
              !.navigated = FALSE, !.closed = FALSE]

\* Mutant: the finally block is missing.
finallyClauseMissing(c) == c

\* finally { setIsProcessing(false) }
finallyClause(c) == [c EXCEPT !.isProcessing = FALSE, !.pc = "idle"]

\* catch (error) { show({ type: 'error' }) } followed by the finally block.
catchClause(c, step) ==
    finallyClause([c EXCEPT !.failedAt = step, !.toast = "error"])

\* if (mode === 'reconstructed' && !templateStyle.trim()); the image modal
\* has no mode.
styleMissing(c) ==
    /\ c.kind = "pdf"
    /\ c.mode = "reconstructed"
    /\ trim(c.templateStyle) = ""

\* handleSubmit up to its first await: the guards, setIsProcessing(true),
\* createProject(...) issued.
handleSubmit ==
    IF ~convert.hasFile
    THEN convert' = cleared(convert)
    ELSE IF styleMissing(convert)
    THEN convert' = [cleared(convert) EXCEPT !.toast = "warning"]
    ELSE convert' = [cleared(convert) EXCEPT !.isProcessing = TRUE,
                                            !.pc = "createProject"]

\* The submit button: disabled={!file || isProcessing}.
SubmitClick ==
    /\ convert.isOpen
    /\ convert.hasFile
    /\ ~convert.isProcessing
    /\ handleSubmit
    /\ ConvertFrame

\* Mutant: the project id is not looked at.
projectIdMissingNever(projectId) == FALSE

\* if (!projectId) throw new Error(...)
projectIdMissing(projectId) == projectId = ""

\* createProject settles: it throws, or answers with or without a
\* project_id; with one, the convert request is issued.
CreateProjectSettles ==
    /\ convert.pc = "createProject"
    /\ \/ convert' = catchClause(convert, "createProject")
       \/ \E projectId \in {"", "proj1"} :
             IF projectIdMissing(projectId)
             THEN convert' = catchClause(convert, "projectId")
             ELSE convert' = [convert EXCEPT !.projectId = projectId,
                                             !.convertIssued = TRUE,
                                             !.pc = "convert"]
    /\ ConvertFrame

\* if (taskId) { addTask(...); pollTask(...) }: the PDF modal only.
mayAddTask(c, taskId) == c.kind = "pdf" /\ taskId # ""

\* After the convert request succeeded: registration, success message,
\* navigate, onClose, then the finally block.
afterConvert(c, taskId) ==
    finallyClause([c EXCEPT !.convertSucceeded = TRUE,
                            !.taskAdded = mayAddTask(c, taskId),
                            !.polling = mayAddTask(c, taskId),
                            !.toast = "success",
                            !.navigated = TRUE,
                            !.closed = TRUE,
                            !.isOpen = FALSE])

\* The convert request settles: it throws, or answers with or without a
\* task_id.
ConvertSettles ==
    /\ convert.pc = "convert"
    /\ \/ convert' = catchClause(convert, "convert")
       \/ \E taskId \in {"", "task1"} : convert' = afterConvert(convert, taskId)
    /\ ConvertFrame

InitConvert ==
    /\ InitVerification(<<>>)
    /\ IdleTask
    /\ IdleExport
    /\ IdleRetry
    /\ \E kind \in {"pdf", "image"} : convert = mountedModal(kind)

NextConvert ==
    \/ SelectFile
    \/ RemoveFile
    \/ SetMode
    \/ SetTemplateStyle
    \/ CancelClick
    \/ Reopen
    \/ SubmitClick
    \/ CreateProjectSettles
    \/ ConvertSettles

SpecConvert == InitConvert /\ [][NextConvert]_vars

\* The API calls return or throw.
SpecConvertFair ==
    /\ SpecConvert
    /\ WF_vars(CreateProjectSettles)
    /\ WF_vars(ConvertSettles)

(***************************************************************************)
(* What the claims speak of, stated without the handlers' code.            *)
(***************************************************************************)
Range(seq) == {seq[i] : i \in 1..Len(seq)}

NoDuplicates(seq) == \A i, j \in 1..Len(seq) : seq[i] = seq[j] => i = j

\* The positions of a forest: <<i>> is root i, p \o <<j>> is child j of p.
RECURSIVE Paths(_)
Paths(forest) ==
    UNION { {<<i>>} \cup {<<i>> \o p : p \in Paths(forest[i].children)} :
            i \in 1..Len(forest) }

RECURSIVE NodeAt(_, _)
NodeAt(forest, path) ==
    IF Len(path) = 1 THEN forest[path[1]]
    ELSE NodeAt(forest[path[1]].children, Tail(path))

\* p comes before q depth-first: p is a proper ancestor of q, or p branches
\* off to an earlier sibling.
Before(p, q) ==
    \E k \in 1..Len(q) :
        /\ \A j \in 1..(k - 1) : j <= Len(p) /\ p[j] = q[j]
        /\ (k > Len(p) \/ p[k] < q[k])

\* The elements of a forest, parents before children, siblings in order.
DepthFirst(forest) ==
    LET ps == Paths(forest) IN
    [i \in 1..Cardinality(ps) |->
        NodeAt(forest, CHOOSE p \in ps :
                           Cardinality({q \in ps : Before(q, p)}) = i - 1)]

\* The ids a traversal of the page's layout tree reaches.
ReachableIds(pageData) ==
    IF pageData.layoutAnalysis.present
    THEN {NodeAt(pageData.layoutAnalysis.elements, p).element_id :
              p \in Paths(pageData.layoutAnalysis.elements)} \ {Undefined}
    ELSE {}

TreeDepth(pageData) ==
    IF Paths(pageData.layoutAnalysis.elements) = {} THEN 0
    ELSE CHOOSE d \in 1..MaxSize + 1 :
            /\ \E p \in Paths(pageData.layoutAnalysis.elements) : Len(p) = d
            /\ \A p \in Paths(pageData.layoutAnalysis.elements) : Len(p) <= d

Pages == {pagesData[i] : i \in 1..Len(pagesData)}

\* The ids materialize would return for a page now.
Materialized(pageId) == collectConfirmed(pagesData, elementStatusMap)[pageId]

\* The ids whose status in a page's map is erase.
EraseSet(pageStatus) ==
    {id \in KeySet(pageStatus) : Get(pageStatus, id) = "erase"}

(***************************************************************************)
(* Claims.                                                                 *)
(***************************************************************************)

\* C1: the status map built at initialisation has, for every page, exactly
\* the ids reachable in that page's layout tree as its keys (each once), and
\* one entry per page.
C1_InitKeysAreReachableIds ==
    lastOp.op = "init" =>
        /\ DOMAIN elementStatusMap = PageIds(pagesData)
        /\ \A pg \in Pages :
              /\ KeySet(elementStatusMap[pg.pageId]) = ReachableIds(pg)
              /\ NoDuplicates(Keys(elementStatusMap[pg.pageId]))

\* C1 witness: a freshly initialised map for a page whose tree is three
\* levels deep and whose deepest element has an id.
C1_Witness ==
    /\ lastOp.op = "init"
    /\ \E pg \in Pages :
          /\ pg.layoutAnalysis.present
          /\ TreeDepth(pg) = 3
          /\ Cardinality(KeySet(elementStatusMap[pg.pageId])) = 3

\* C2: at initialisation every reachable id is erase when it is in the page's
\* confirmedElementIds and keep otherwise.
C2_InitStatusFromBaseline ==
    lastOp.op = "init" =>
        \A pg \in Pages : \A id \in ReachableIds(pg) :
            Get(elementStatusMap[pg.pageId], id) =
                (IF id \in pg.confirmedElementIds THEN "erase" ELSE "keep")

\* C2 witness: the page [t1, t2, im1] with baseline {t1} initialised to
\* t1 erase, t2 keep, im1 keep.
C2_Witness ==
    /\ lastOp.op = "init"
    /\ \E pg \in Pages :
          /\ pg.layoutAnalysis.present
          /\ getAllElementIds(pg.layoutAnalysis.elements) = <<"t1", "t2", "im1">>
          /\ TreeDepth(pg) = 1
          /\ pg.confirmedElementIds = {"t1"}
          /\ elementStatusMap[pg.pageId] =
                <<[id |-> "t1", status |-> "erase"],
                  [id |-> "t2", status |-> "keep"],
                  [id |-> "im1", status |-> "keep"]>>

\* C3 (as claimed): right after reset the current page's map equals, in keys
\* and values, the map initialisation produced for that page.
C3_ResetRestoresInit ==
    (lastOp.op = "reset" /\ HasCurrentPage) =>
        elementStatusMap[currentPageData.pageId] =
            initialElementStatusMap(pagesData)[currentPageData.pageId]

\* C4 (as claimed): in every reachable state each page's map has exactly the
\* ids reachable in that page's layout tree as its keys.
C4_MapKeysAreReachableIds ==
    \A pg \in Pages :
        /\ KeySet(elementStatusMap[pg.pageId]) = ReachableIds(pg)
        /\ NoDuplicates(Keys(elementStatusMap[pg.pageId]))

\* C5 (as claimed): a toggle with an element id that is not in the current
\* page's tree leaves the whole status map unchanged.
C5_UnknownToggleChangesNothing ==
    [][(/\ lastOp'.op = "toggle"
        /\ HasCurrentPage
        /\ lastOp'.elementId \notin ReachableIds(currentPageData))
       => elementStatusMap' = elementStatusMap]_vars

\* C6 (as claimed): right after select-all materialize returns exactly the
\* page's known ids, and right after deselect-all it returns nothing.
C6_MaterializeAfterBulkSet ==
    /\ (lastOp.op = "selectAll" /\ HasCurrentPage) =>
          /\ Range(Materialized(currentPageData.pageId)) = ReachableIds(currentPageData)
          /\ NoDuplicates(Materialized(currentPageData.pageId))
    /\ (lastOp.op = "deselectAll" /\ HasCurrentPage) =>
          Materialized(currentPageData.pageId) = <<>>

\* C7: a confirm hands onConfirm one entry per page holding exactly the ids
\* whose status is erase, and changes neither the status map nor the page
\* shown.
C7_ConfirmIsPureRead ==
    [][confirmedElements'.called =>
          /\ elementStatusMap' = elementStatusMap
          /\ currentIndex' = currentIndex
          /\ pagesData' = pagesData
          /\ DOMAIN confirmedElements'.elements = PageIds(pagesData)
          /\ \A pid \in PageIds(pagesData) :
                /\ Range(confirmedElements'.elements[pid]) = EraseSet(elementStatusMap[pid])
                /\ NoDuplicates(confirmedElements'.elements[pid])]_vars

\* C7 witness: a confirm over two pages, one with an erase id next to a keep
\* id and one with nothing to erase.
C7_Witness ==
    /\ confirmedElements.called
    /\ \E p, q \in PageIds(pagesData) :
          /\ confirmedElements.elements[p] # <<>>
          /\ Len(confirmedElements.elements[p]) < Len(elementStatusMap[p])
          /\ confirmedElements.elements[q] = <<>>

\* C8: both enumerations are depth-first, parent before children and siblings
\* in order, and the ids put in the status map are, in order, the ids of the
\* elements the canvas enumerates.
C8_TraversalOrder ==
    \A pg \in Pages :
        pg.layoutAnalysis.present =>
            /\ getAllElements(pg.layoutAnalysis.elements) =
                   DepthFirst(pg.layoutAnalysis.elements)
            /\ getAllElementIds(pg.layoutAnalysis.elements) =
                   SelectSeq([i \in 1..Len(getAllElements(pg.layoutAnalysis.elements)) |->
                                getAllElements(pg.layoutAnalysis.elements)[i].element_id],
                             LAMBDA id : id # Undefined)

\* C8 witness: the canvas shows a page whose first root has a child and is
\* followed by a sibling, so depth-first and sibling-first orders differ.
C8_Witness ==
    /\ CanvasRendered
    /\ Len(currentPageData.layoutAnalysis.elements) = 2
    /\ Len(currentPageData.layoutAnalysis.elements[1].children) = 1
    /\ Len(elementStatusMap[currentPageData.pageId]) = 3

\* C9: a task created with manualConfirmation has been in
\* AWAITING_VERIFICATION with every one of its pages extracted, and has been
\* confirmed, before Reconstruct is called for any page; and it is COMPLETED
\* only after a confirm call.
C9_VerificationBeforeReconstruct ==
    task.manualConfirmation =>
        /\ task.reconstructCalled =>
              (task.awaitedPages = TaskPages /\ task.confirmed)
        /\ task.status = "COMPLETED" => task.confirmed

\* C9 witness: a two-page task with manualConfirmation that completed.
C9_Witness ==
    /\ task.manualConfirmation
    /\ task.status = "COMPLETED"
    /\ TaskPages = {1, 2}
    /\ task.reconstructCalled

\* C10: AWAITING_VERIFICATION is entered only by a task whose settings say
\* manualConfirmation; a task without it only moves PENDING -> PROCESSING ->
\* COMPLETED or FAILED.
C10_AwaitingOnlyWhenManual ==
    [][/\ task'.status = "AWAITING_VERIFICATION" => task'.manualConfirmation
       /\ (/\ ~task.manualConfirmation
           /\ task.status # "NONE"
           /\ task'.status # task.status)
          => <<task.status, task'.status>> \in
                {<<"PENDING", "PROCESSING">>,
                 <<"PROCESSING", "COMPLETED">>,
                 <<"PROCESSING", "FAILED">>}]_vars

\* C10 witness: a task created with the checkbox unchecked ran to COMPLETED.
C10_Witness ==
    /\ ~task.manualConfirmation
    /\ task.status = "COMPLETED"
    /\ \A p \in TaskPages : task.pages[p] = "assembled"

\* C11: a confirm call is accepted only while the task is
\* AWAITING_VERIFICATION; a confirm in any other state, a second confirm for
\* the same session included, is rejected and changes nothing of the task.
C11_ConfirmOnlyWhileAwaiting ==
    [][/\ confirmResponse' = "accepted" =>
             (task.status = "AWAITING_VERIFICATION" /\ task'.status = "PROCESSING")
       /\ confirmResponse' = "rejected" =>
             (task.status # "AWAITING_VERIFICATION" /\ task' = task)]_vars

\* C11 witness: a second confirm for a task already confirmed was rejected.
C11_Witness ==
    /\ confirmResponse = "rejected"
    /\ task.confirmed
    /\ task.status = "PROCESSING"

\* C12: once the status is COMPLETED or FAILED no step changes it: not a
\* confirm call, not a late page result, not polling.
C12_TerminalIsFinal ==
    [][task.status \in {"COMPLETED", "FAILED"} => task'.status = task.status]_vars

\* C12 witness: a FAILED task after the late result and the late failure of
\* two other pages.
C12_Witness ==
    /\ task.status = "FAILED"
    /\ Len(task.failures) = 2
    /\ \E p \in TaskPages : task.pages[p] = "assembled"

\* C13: when Reconstruct or Assemble of a page exhausts its retries the task
\* is FAILED, never COMPLETED, and its error records that page (the first one
\* to fail, when the work in flight for another page fails later).
C13_FailureRecordsPage ==
    task.failures # <<>> =>
        /\ task.status = "FAILED"
        /\ task.error.page = task.failures[1]
        /\ task.error.stage \in {"extract", "reconstruct", "assemble"}

\* C13 witness: of three pages, Reconstruct failed for page 2 alone and the
\* error names page 2.
C13_Witness ==
    /\ TaskPages = {1, 2, 3}
    /\ task.failures = <<2>>
    /\ task.error = [stage |-> "reconstruct", page |-> 2]
    /\ task.pages[1] # "queued"
    /\ task.pages[3] # "queued"

\* C14: under fair scheduling every task that is PENDING or PROCESSING
\* eventually is COMPLETED, FAILED or AWAITING_VERIFICATION.
C14_TaskSettles ==
    (task.status \in {"PENDING", "PROCESSING"})
        ~> (task.status \in {"COMPLETED", "FAILED", "AWAITING_VERIFICATION"})

\* C14 witness: a task of the largest size, not manually confirmed, COMPLETED.
C14_Witness ==
    /\ task.status = "COMPLETED"
    /\ ~task.confirmed
    /\ Len(task.pages) = MaxTaskPages

\* A call of the tool has ended, by returning or by throwing.
CallEnded == retry.pc \in {"returned", "thrown"}

\* C15: the function is invoked at most max_retries times in one call.
C15_AttemptsWithinMaxRetries ==
    retry.attempts <= retry.max_retries

\* C16: the wait after the k-th failed attempt of a call is 1000 * 2^(k-1)
\* milliseconds, whatever the error and whatever the calls before.
C16_BackoffDoubles ==
    /\ Len(retry.waits) = Len(retry.errors)
    /\ \A k \in 1..Len(retry.waits) :
          retry.waits[k] = 1000 * Pow2(k - 1)

\* C16 witness: a call whose three attempts failed with different errors,
\* with waits of 1, 2 and 4 seconds.
C16_Witness ==
    /\ retry.pc = "thrown"
    /\ retry.waits = <<1000, 2000, 4000>>
    /\ retry.errors[1] # retry.errors[2]
    /\ retry.errors[2] # retry.errors[3]

\* C17: an input error ends the call at once: the attempt that raised it is
\* the last one and no backoff wait follows it.
C17_InputErrorNotRetried ==
    \A k \in 1..Len(retry.errors) :
        retry.errors[k] = "input_error" =>
            /\ retry.attempts = k
            /\ Len(retry.waits) < k
            /\ retry.pc = "thrown"

\* C18: a generateImage call ends by returning, the buffer on success and
\* null on failure; it does not throw.
C18_GenerateImageReturns ==
    (retry.method = "generateImage" /\ CallEnded) =>
        /\ retry.pc = "returned"
        /\ retry.result \in {"buffer", "null"}

\* C19: every settings object handed to onConfirm has each field inside its
\* enumerated set, whatever the settings store answered.
C19_PayloadFieldsEnumerated ==
    exportPayload.called =>
        /\ exportPayload.settings.extractor \in {"hybrid", "mineru", "local"}
        /\ exportPayload.settings.inpaint \in
              {"hybrid", "baidu", "generative", "local"}
        /\ exportPayload.settings.manualConfirmation \in BOOLEAN
        /\ exportPayload.settings.textStyleMode \in {"local_cv", "ai", "none"}
        /\ exportPayload.settings.imageResolution \in {"720p", "1080p", "2K"}
        /\ exportPayload.settings.imageFormat \in {"PNG", "JPG", "WEBP"}

\* C20: a settings object handed to onConfirm names 'local' as extractor or
\* as inpaint only when local OCR/inpaint is enabled globally.
C20_LocalOnlyWhenEnabled ==
    (/\ exportPayload.called
     /\ \/ exportPayload.settings.extractor = "local"
        \/ exportPayload.settings.inpaint = "local")
        => exportSelection.globalLocalEnabled

\* C25: the answer of getSettings arriving after the user changed a select
\* of the open modal leaves that selection as the user made it.
C25_SelectionSurvivesSettings ==
    [][(/\ lastSelected # NoSelect
        /\ settingsInFlight' < settingsInFlight)
       => exportSelection'[lastSelected] = exportSelection[lastSelected]]_vars

\* C26: the convert request is issued only with the project id createProject
\* returned; registration, polling, the success message, navigation and
\* closing happen only after the convert request succeeded; a failed step
\* shows an error and registers, navigates and closes nothing.
C26_SubmitStepsOrdered ==
    /\ convert.convertIssued => convert.projectId # ""
    /\ convert.convertSucceeded => convert.convertIssued
    /\ (\/ convert.taskAdded
        \/ convert.polling
        \/ convert.navigated
        \/ convert.closed
        \/ convert.toast = "success") => convert.convertSucceeded
    /\ convert.failedAt # "" =>
          /\ convert.toast = "error"
          /\ ~convert.convertSucceeded
          /\ ~convert.taskAdded
          /\ ~convert.polling
          /\ ~convert.navigated
          /\ ~convert.closed

\* C26 witness: the project was created and the convert request failed.
C26_Witness ==
    /\ convert.failedAt = "convert"
    /\ convert.projectId = "proj1"
    /\ convert.pc = "idle"

\* C27: when the PDF modal reports success and navigates, the task was
\* added to the task store and is being polled.
C27_SuccessMeansTracked ==
    (/\ convert.kind = "pdf"
     /\ convert.toast = "success"
     /\ convert.navigated)
        => (convert.taskAdded /\ convert.polling)

\* A submission the handler turns away: no file, or reconstructed mode with
\* an empty or blank style description.
Unsubmittable ==
    \/ ~convert.hasFile
    \/ /\ convert.kind = "pdf"
       /\ convert.mode = "reconstructed"
       /\ convert.templateStyle \in {"", " "}

\* C28: the in-progress flag, once set, is eventually cleared when the API
\* calls return or throw; and a submission that is turned away neither sets
\* the flag nor creates a project.
C28_FlagClearedAndGuarded ==
    /\ convert.isProcessing ~> ~convert.isProcessing
    /\ [][((~convert.isProcessing /\ convert'.isProcessing)
             \/ (convert.pc # "createProject" /\ convert'.pc = "createProject"))
           => ~Unsubmittable]_vars

\* C28 witness: a submission ended without a project id and the flag is
\* cleared.
C28_Witness ==
    /\ convert.failedAt = "projectId"
    /\ ~convert.isProcessing
    /\ convert.toast = "error"

\* C29: a call that returned did so with the value of its first successful
\* attempt, every earlier attempt having failed and been waited for; nothing
\* of the call changes after that; and a call that ended made an attempt.
C29_ReturnsFirstSuccess ==
    [][/\ retry'.pc = "returned" =>
            /\ retry'.attempts = Len(retry'.errors) + 1
            /\ Len(retry'.waits) = Len(retry'.errors)
            /\ retry'.result = (IF retry'.method = "generateImage"
                                THEN "buffer" ELSE "text")
       /\ retry'.pc \in {"returned", "thrown"} => retry'.attempts >= 1
       /\ retry.pc = "returned" =>
            \/ retry'.attempts = 0
            \/ retry' = retry]_vars

\* C29 witness: a call returned at its third attempt.
C29_Witness ==
    /\ retry.pc = "returned"
    /\ retry.attempts = 3
    /\ Len(retry.waits) = 2

\* C30: a call all of whose attempts failed throws the last attempt's error
\* without waiting after it: n failed attempts, n - 1 waits.
C30_ThrowsWithoutLastWait ==
    retry.pc = "thrown" =>
        /\ retry.lastError = retry.errors[Len(retry.errors)]
        /\ Len(retry.errors) = retry.attempts
        /\ Len(retry.waits) = retry.attempts - 1

\* The maps of the pages other than pageId are what they were.
OtherPagesUnchanged(pageId) ==
    /\ DOMAIN elementStatusMap' = DOMAIN elementStatusMap
    /\ \A pid \in DOMAIN elementStatusMap \ {pageId} :
          elementStatusMap'[pid] = elementStatusMap[pid]

\* C21: a toggle on an id of the current page's tree flips that entry
\* between keep and erase, leaves every other entry of the page and every
\* other page's map as it was, and a second toggle of the same id gives
\* back the previous map.
C21_ToggleFlipsOneEntry ==
    [][(/\ lastOp'.op = "toggle"
        /\ lastOp'.elementId \in ReachableIds(currentPageData))
       => LET pid == currentPageData.pageId
              eid == lastOp'.elementId
              old == elementStatusMap[pid]
              new == elementStatusMap'[pid]
          IN /\ lastOp'.pageId = pid
             /\ Keys(new) = Keys(old)
             /\ {Get(old, eid), Get(new, eid)} = {"keep", "erase"}
             /\ \A id \in KeySet(old) \ {eid} : Get(new, id) = Get(old, id)
             /\ OtherPagesUnchanged(pid)
             /\ toggled(new, eid) = old]_vars

\* C21 witness: a known element was toggled on a page with several entries,
\* in a session with several pages.
C21_Witness ==
    /\ lastOp.op = "toggle"
    /\ lastOp.elementId # Undefined
    /\ Len(pagesData) >= 2
    /\ Len(elementStatusMap[lastOp.pageId]) >= 2
    /\ Get(elementStatusMap[lastOp.pageId], lastOp.elementId) = "erase"

\* C22: select all, deselect all and reset keep the keys of the current
\* page's map, the maps of all other pages and the current page index.
C22_BulkSetAndResetFrame ==
    [][lastOp'.op \in {"selectAll", "deselectAll", "reset"}
       => LET pid == currentPageData.pageId
          IN /\ lastOp'.pageId = pid
             /\ Keys(elementStatusMap'[pid]) = Keys(elementStatusMap[pid])
             /\ OtherPagesUnchanged(pid)
             /\ currentIndex' = currentIndex]_vars

\* C22 witness: all elements of the second page were selected, the first
\* page's elements being kept.
C22_Witness ==
    /\ lastOp.op = "selectAll"
    /\ currentIndex = 1
    /\ EraseSet(elementStatusMap[pagesData[2].pageId]) # {}
    /\ KeySet(elementStatusMap[pagesData[1].pageId]) # {}
    /\ EraseSet(elementStatusMap[pagesData[1].pageId]) = {}

\* C23: currentIndex is never negative and, when there are pages, is an
\* index of pagesData.
C23_CurrentIndexValid ==
    /\ currentIndex >= 0
    /\ Len(pagesData) > 0 => currentIndex <= Len(pagesData) - 1

\* C24: every element the canvas renders is shown as erase exactly when
\* its id is in the erase list confirm would submit for the page now.
C24_ShownIsSubmitted ==
    CanvasRendered =>
        \A p \in Paths(currentPageData.layoutAnalysis.elements) :
            LET element == NodeAt(currentPageData.layoutAnalysis.elements, p)
                pid == currentPageData.pageId
            IN (shownStatus(elementStatusMap[pid], element.element_id) = "erase")
                   <=> (element.element_id \in Range(Materialized(pid)))

====
